---------------------------- MODULE Spec2Model ----------------------------
(***************************************************************************)
(* A model of the asynchronous inference job service of alm-backend:       *)
(* app/services/inference_service.py (InferenceJob, InferenceService) and  *)
(* the two boundary handlers of app/routers/inference.py that reach it.    *)
(*                                                                         *)
(* Scheduling.  Everything runs on one asyncio event loop.  A coroutine    *)
(* gives up control only at an await that really suspends: in this code    *)
(* the worker's `await self.job_queue.get()` on an empty queue, the        *)
(* worker's `await asyncio.sleep(1)`, and stop_worker's                    *)
(* `await self.worker_task`.  The code between two such points runs        *)
(* without any other coroutine being scheduled; the model keeps its steps  *)
(* apart (so that the intermediate job states exist) and lets no other     *)
(* coroutine move while a task is between two suspension points            *)
(* (LoopFree / MayRun).                                                    *)
(***************************************************************************)
EXTENDS Integers, Sequences, FiniteSets, TLC

(***************************************************************************)
(* Bounds of the model.                                                    *)
(***************************************************************************)
MaxJobs == 2        \* submissions accepted by the model
MaxTasks == 2       \* worker tasks that exist at a time (done ones are forgotten)

(***************************************************************************)
(* Program constants.                                                      *)
(***************************************************************************)
SeqLength == 20     \* seq_length in _run_inference
EmbDim == 128       \* number of emb_<i> columns in _parse_csv_data

(***************************************************************************)
(* Optional values: None is the empty tuple, Some(x) the one-tuple.        *)
(***************************************************************************)
None == <<>>
Some(x) == <<x>>

\* JobStatus
PENDING == "pending"
PROCESSING == "processing"
COMPLETED == "completed"
FAILED == "failed"
JobStatus == {PENDING, PROCESSING, COMPLETED, FAILED}

\* Identifiers uuid.uuid4() can return.
JobIds == 1..MaxJobs
\* The identifiers a client may ask for: 0 is one no submission ever returns.
LookupIds == 0..MaxJobs
TaskIds == 1..MaxTasks

(***************************************************************************)
(* The model store: the checkpoints models_dir holds, by stem, each with   *)
(* the config dictionary of its checkpoint.  "ghost" names no file.        *)
(***************************************************************************)
ModelStore ==
    [ xlstm_h5 |-> [input_size |-> 128, prediction_horizon |-> 5],
      xlstm_h1 |-> [input_size |-> 128] ]
StoreNames == DOMAIN ModelStore
ModelNames == StoreNames \cup {"ghost"}

(***************************************************************************)
(* Payloads.  A CSV text is described by what _parse_csv_data reads of it: *)
(* whether pandas can parse it at all, how many of the emb_<i> columns its *)
(* header has, whether it has a last_price column, whether its cells are   *)
(* numeric, its number of data rows, and `gaps`: the data rows (by line)   *)
(* that leave the cell of some emb_<i> column empty.                       *)
(***************************************************************************)
Csv(parses, emb_cols, has_price, numeric, rows) ==
    [parses |-> parses, emb_cols |-> emb_cols, has_price |-> has_price,
     numeric |-> numeric, rows |-> rows, gaps |-> {}]
WithGaps(data, gaps) == [data EXCEPT !.gaps = gaps]
FullWindowCsv == Csv(TRUE, EmbDim, TRUE, TRUE, SeqLength)
ShortCsv == Csv(TRUE, EmbDim, TRUE, TRUE, SeqLength - 1)
MalformedCsv == Csv(FALSE, 0, FALSE, TRUE, 0)
\* A header and no data row.
HeaderOnlyCsv == Csv(TRUE, EmbDim, TRUE, TRUE, 0)
\* A full window of rows under a header that lacks one emb_<i> column.
MissingColumnCsv == Csv(TRUE, EmbDim - 1, TRUE, TRUE, SeqLength)
\* A full window of rows and no last_price column.
NoPriceCsv == Csv(TRUE, EmbDim, FALSE, TRUE, SeqLength)
\* A full window of rows whose cells are not numbers.
TextCellsCsv == Csv(TRUE, EmbDim, TRUE, FALSE, SeqLength)
\* A full window of rows; the second leaves a feature cell empty.
GappyWindowCsv == WithGaps(FullWindowCsv, {2})
\* One row short of a window, the second and the last with an empty cell.
GappyShortCsv == WithGaps(ShortCsv, {2, SeqLength - 1})

\* The (model name, payload) pairs clients submit.
Submission(model, data) == [model |-> model, data |-> data]
Submissions ==
    { Submission("xlstm_h5", FullWindowCsv),
      Submission("xlstm_h1", ShortCsv),
      Submission("ghost", MalformedCsv) }
\* What the uploaded file can be: a UTF-8 .csv, another file type, or a .csv
\* that does not decode.
FileKinds == {"csv", "not_csv", "not_utf8"}

(***************************************************************************)
(* Exceptions are modelled by their str(): the only thing the worker keeps.*)
(* The opaque collaborators may raise whatever they like.  The model lets  *)
(* building the model (the xLSTM import and constructor, load_state_dict)  *)
(* fail with a message, and the forward pass fail with an exception that   *)
(* has none (a bare assert, NotImplementedError()): str(e) = "".           *)
(***************************************************************************)
LoadFailures == {"RuntimeError: Error(s) in loading state_dict for xLSTM"}
ForwardFailures == {""}

VARIABLES
    jobs,           \* self.jobs: job id -> InferenceJob
    job_queue,      \* self.job_queue: the queued jobs (ids), head first
    getters,        \* job_queue._getters: tasks suspended in get(), first first
    unfinished,     \* job_queue._unfinished_tasks
    loaded_models,  \* self.loaded_models: name -> (model, config)
    worker_task,    \* self.worker_task: a task id, or 0 for None
    tasks,          \* the tasks create_task made: id -> position and locals
    stop_await,     \* the task stop_worker is awaiting, or 0
    clock,          \* the next value of datetime.utcnow()
    resp,           \* what the last boundary/service call returned
    submit_order,   \* history: the ids submit_job returned, in order
    load_count      \* history: name -> number of successful loads from the store

vars == <<jobs, job_queue, getters, unfinished, loaded_models, worker_task,
          tasks, stop_await, clock, resp, submit_order, load_count>>

(***************************************************************************)
(* InferenceJob.__init__                                                   *)
(***************************************************************************)
InferenceJob(model, data, now) ==
    [model |-> model, data |-> data, status |-> PENDING, submitted_at |-> now,
     completed_at |-> None, result |-> None, error |-> None]

(***************************************************************************)
(* Task positions.  "none" is a task that does not exist.  A task is        *)
(* suspended at "start" (created, not yet run),                            *)
(* "get" (in get(), waiting for its getter future), "ready" (its getter    *)
(* future was resolved by a put; the wakeup is scheduled), "sleep" and     *)
(* "done"; every other position is inside a run of the task.               *)
(***************************************************************************)
SuspendedPcs == {"none", "start", "get", "ready", "sleep", "done"}
RunningPcs == {"loop", "load", "parse", "infer", "completed", "except", "finally"}

NewTask == [pc |-> "start", must_cancel |-> FALSE, job |-> 0,
            rows |-> 0, result |-> None, exc |-> None]
NoTask == [NewTask EXCEPT !.pc = "none"]

\* asyncio.Task.done()
TaskDone(t) == tasks[t].pc = "done"

\* No task is between two suspension points: the loop may run another callback.
LoopFree == \A t \in TaskIds : tasks[t].pc \in SuspendedPcs
\* Task t may take its next step: no other task is in the middle of a run.
MayRun(t) == \A u \in TaskIds \ {t} : tasks[u].pc \in SuspendedPcs

Init ==
    /\ jobs = << >>
    /\ job_queue = << >>
    /\ getters = << >>
    /\ unfinished = 0
    /\ loaded_models = << >>
    /\ worker_task = 0
    /\ tasks = [t \in TaskIds |-> NoTask]
    /\ stop_await = 0
    /\ clock = 1
    /\ resp = [op |-> "init"]
    /\ submit_order = << >>
    /\ load_count = [n \in StoreNames |-> 0]


(***************************************************************************)
(* asyncio.Queue                                                           *)
(***************************************************************************)
\* The getter future of task t is still pending (not resolved, not cancelled).
GetterPending(ts, t) == ts[t].pc = "get" /\ ~ts[t].must_cancel

\* Mutant of WakeupNext: a put that wakes no waiting getter.
WakeupNextLost(gs, ts) == [getters |-> gs, tasks |-> ts]

\* Queue._wakeup_next(self._getters): pop waiters up to and including the
\* first one that is not done, and resolve that one.
RECURSIVE WakeupNext(_, _)
WakeupNext(gs, ts) ==
    IF gs = << >> THEN [getters |-> gs, tasks |-> ts]
    ELSE IF GetterPending(ts, Head(gs))
         THEN [getters |-> Tail(gs),
               tasks |-> [ts EXCEPT ![Head(gs)].pc = "ready"]]
         ELSE WakeupNext(Tail(gs), ts)

\* Mutant of QueuePut: the new item goes to the head (a LIFO queue).
QueuePutFront(q, item) == <<item>> \o q

\* Queue._put: the new item goes to the tail.
QueuePut(q, item) == Append(q, item)
\* Mutant of QueueHead: the item handed out is not the one removed.
QueueHeadLast(q) == q[Len(q)]

\* Queue._get: the item handed out is the head.
QueueHead(q) == Head(q)
QueueRest(q) == Tail(q)

\* Sequence s without the entries equal to x.
RECURSIVE Remove(_, _)
Remove(s, x) ==
    IF s = << >> THEN s
    ELSE IF Head(s) = x THEN Remove(Tail(s), x)
         ELSE <<Head(s)>> \o Remove(Tail(s), x)

(***************************************************************************)
(* InferenceService.submit_job.  The queue is unbounded, so                *)
(* `await self.job_queue.put(job)` never suspends: it is put_nowait.       *)
(***************************************************************************)
SubmitJobEffect(job_id, model, data) ==
    LET w == WakeupNext(getters, tasks) IN
    /\ jobs' = (job_id :> InferenceJob(model, data, clock)) @@ jobs
    /\ clock' = clock + 1
    /\ job_queue' = QueuePut(job_queue, job_id)
    /\ unfinished' = unfinished + 1
    /\ getters' = w.getters
    /\ tasks' = w.tasks
    /\ submit_order' = Append(submit_order, job_id)
    /\ UNCHANGED <<loaded_models, worker_task, stop_await, load_count>>

\* Mutant of NewJobId: a submission gets an identifier a job already has.
NewJobIdReused == IF jobs = << >> THEN 1 ELSE CHOOSE j \in DOMAIN jobs : TRUE

\* uuid.uuid4(): an identifier no job has.  Identifiers are opaque and
\* interchangeable; the model hands them out in order.
NewJobId == Cardinality(DOMAIN jobs) + 1

SubmitJob(model, data) ==
    /\ LoopFree
    /\ NewJobId \in JobIds
    /\ SubmitJobEffect(NewJobId, model, data)
    /\ resp' = [op |-> "submit_job", job_id |-> NewJobId]

(***************************************************************************)
(* InferenceService.list_available_models: one ModelInfo per checkpoint    *)
(* in models_dir.                                                          *)
(***************************************************************************)
ListAvailableModels ==
    { [name |-> n, config |-> ModelStore[n], loaded |-> n \in DOMAIN loaded_models]
        : n \in StoreNames }

(***************************************************************************)
(* Router: POST /inference/{model_name} (submit_inference).                *)
(***************************************************************************)
SubmitInference(model_name, file, data) ==
    /\ LoopFree
    /\ LET model_names == { m.name : m \in ListAvailableModels } IN
       IF model_name \notin model_names
       THEN /\ resp' = [op |-> "submit_inference", status_code |-> 404]
            /\ UNCHANGED <<jobs, job_queue, getters, unfinished, loaded_models,
                           worker_task, tasks, stop_await, clock,
                           submit_order, load_count>>
       ELSE IF file # "csv"
       THEN /\ resp' = [op |-> "submit_inference", status_code |-> 400]
            /\ UNCHANGED <<jobs, job_queue, getters, unfinished, loaded_models,
                           worker_task, tasks, stop_await, clock,
                           submit_order, load_count>>
       ELSE /\ NewJobId \in JobIds
            /\ SubmitJobEffect(NewJobId, model_name, data)
            /\ resp' = [op |-> "submit_inference", status_code |-> 202,
                        job_id |-> NewJobId, status |-> PENDING,
                        model |-> model_name]

(***************************************************************************)
(* InferenceService.get_job_result and the router's GET /result/{job_id}.  *)
(***************************************************************************)
JobNotFoundMsg(job_id) == "Job not found: " \o ToString(job_id)

\* Mutant of GetJobResult: the job is read without the membership test.
GetJobResultKeyError(job_id) ==
    IF job_id \notin DOMAIN jobs
    THEN [raised |-> Some("KeyError"), msg |-> ToString(job_id)]
    ELSE [raised |-> None,
          value |-> [job_id |-> job_id,
                     status |-> jobs[job_id].status,
                     submitted_at |-> jobs[job_id].submitted_at,
                     completed_at |-> jobs[job_id].completed_at,
                     model |-> jobs[job_id].model,
                     result |-> jobs[job_id].result,
                     error |-> jobs[job_id].error]]

\* The service call: what it raises (None: nothing) and what it returns.
GetJobResult(job_id) ==
    IF job_id \notin DOMAIN jobs
    THEN [raised |-> Some("ValueError"), msg |-> JobNotFoundMsg(job_id)]
    ELSE [raised |-> None,
          value |-> [job_id |-> job_id,
                     status |-> jobs[job_id].status,
                     submitted_at |-> jobs[job_id].submitted_at,
                     completed_at |-> jobs[job_id].completed_at,
                     model |-> jobs[job_id].model,
                     result |-> jobs[job_id].result,
                     error |-> jobs[job_id].error]]

\* The router's mapping of the outcome to a response (`request` records the
\* identifier that was asked for).
ResultResponse(job_id, r) ==
    IF r.raised = None
    THEN [op |-> "get_inference_result", request |-> job_id,
          status_code |-> 200, body |-> r.value]
    ELSE IF r.raised = Some("ValueError")
    THEN [op |-> "get_inference_result", request |-> job_id,
          status_code |-> 404, detail |-> r.msg]
    ELSE [op |-> "get_inference_result", request |-> job_id,
          status_code |-> 500, detail |-> "Error retrieving result: " \o r.msg]

GetInferenceResult(job_id) ==
    /\ LoopFree
    /\ resp' = ResultResponse(job_id, GetJobResult(job_id))
    /\ UNCHANGED <<jobs, job_queue, getters, unfinished, loaded_models,
                   worker_task, tasks, stop_await, clock, submit_order, load_count>>

(***************************************************************************)
(* InferenceService.start_worker / stop_worker.                            *)
(***************************************************************************)
\* `self.worker_task is None or self.worker_task.done()`
NoLiveWorker == worker_task = 0 \/ TaskDone(worker_task)

\* asyncio.create_task: the new task gets an id no task that is alive, or
\* still awaited, has.
FreeTaskIds ==
    { t \in TaskIds : tasks[t].pc \in {"none", "done"} /\ t # stop_await }
NextTaskId == CHOOSE t \in FreeTaskIds : \A u \in FreeTaskIds : t <= u

\* The tasks that remain when only the tasks in `kept` are still referred to:
\* a done task nothing refers to is gone.
Forget(ts, kept) ==
    [t \in TaskIds |-> IF ts[t].pc = "done" /\ t \notin kept THEN NoTask ELSE ts[t]]

\* Mutant of StartWorker: the task is created without the test of worker_task.
StartWorkerUnguarded ==
    /\ LoopFree
    /\ FreeTaskIds # {}
    /\ tasks' = [tasks EXCEPT ![NextTaskId] = NewTask]
    /\ worker_task' = NextTaskId
    /\ resp' = [op |-> "start_worker", created |-> TRUE]
    /\ UNCHANGED <<jobs, job_queue, getters, unfinished, loaded_models,
                   stop_await, clock, submit_order, load_count>>

StartWorker ==
    /\ LoopFree
    /\ IF NoLiveWorker
       THEN /\ FreeTaskIds # {}
            /\ tasks' = Forget([tasks EXCEPT ![NextTaskId] = NewTask],
                               {NextTaskId, stop_await})
            /\ worker_task' = NextTaskId
       ELSE UNCHANGED <<tasks, worker_task>>
    /\ resp' = [op |-> "start_worker", created |-> NoLiveWorker]
    /\ UNCHANGED <<jobs, job_queue, getters, unfinished, loaded_models,
                   stop_await, clock, submit_order, load_count>>

\* Task.cancel() on a task that is not done: a suspended task's pending future
\* is cancelled, otherwise the task is marked; either way the task is thrown
\* CancelledError when it next runs.
Cancel(ts, t) == [ts EXCEPT ![t].must_cancel = TRUE]

\* stop_worker up to its await (or to its end, when there is nothing to stop).
StopWorker ==
    /\ LoopFree
    /\ stop_await = 0
    /\ IF worker_task # 0 /\ ~TaskDone(worker_task)
       THEN /\ tasks' = Cancel(tasks, worker_task)
            /\ stop_await' = worker_task
       ELSE UNCHANGED <<tasks, stop_await>>
    /\ resp' = [op |-> "stop_worker", cancelled |-> ~NoLiveWorker]
    /\ UNCHANGED <<jobs, job_queue, getters, unfinished, loaded_models,
                   worker_task, clock, submit_order, load_count>>

\* Mutant of StopWorkerReturn: stop_worker returns without awaiting the task.
StopWorkerReturnEarly ==
    /\ LoopFree
    /\ stop_await # 0
    /\ stop_await' = 0
    /\ tasks' = Forget(tasks, {worker_task})
    /\ resp' = [op |-> "stop_worker_return"]
    /\ UNCHANGED <<jobs, job_queue, getters, unfinished, loaded_models,
                   worker_task, clock, submit_order, load_count>>

\* `await self.worker_task` returns (or raises the suppressed CancelledError)
\* once the awaited task is done.
StopWorkerReturn ==
    /\ LoopFree
    /\ stop_await # 0
    /\ TaskDone(stop_await)
    /\ stop_await' = 0
    /\ tasks' = Forget(tasks, {worker_task})
    /\ resp' = [op |-> "stop_worker_return"]
    /\ UNCHANGED <<jobs, job_queue, getters, unfinished, loaded_models,
                   worker_task, clock, submit_order, load_count>>

(***************************************************************************)
(* The Executor's three calls, as the worker makes them.                   *)
(***************************************************************************)
\* Mutant of ModelNotFoundMsg: the message does not name the model.
ModelNotFoundMsgNameless(model_name) == "Model not found"

\* msg = f"Model not found: {model_name}"
ModelNotFoundMsg(model_name) == "Model not found: " \o model_name

\* Mutant of Cached: the cache is never consulted.
CachedNever(model_name) == FALSE

\* `if model_name in self.loaded_models`
Cached(model_name) == model_name \in DOMAIN loaded_models

\* The outcomes of _load_model(model_name): what it raises (None: nothing),
\* the cache after the call, and whether the store was read successfully.
LoadModelOutcomes(model_name) ==
    IF Cached(model_name)
    THEN { [exc |-> None, cache |-> loaded_models, loaded |-> FALSE] }
    ELSE IF model_name \notin StoreNames
    THEN { [exc |-> Some(ModelNotFoundMsg(model_name)), cache |-> loaded_models,
            loaded |-> FALSE] }
    ELSE { [exc |-> None,
            cache |-> (model_name :> [model |-> model_name,
                                      config |-> ModelStore[model_name]])
                      @@ loaded_models,
            loaded |-> TRUE] }
         \cup { [exc |-> Some(f), cache |-> loaded_models, loaded |-> FALSE]
                  : f \in LoadFailures }

\* pd.read_csv(...).iterrows(): data row i of the frame, known by its line.
\* pandas reads a cell the text leaves empty as NaN.
DataFrameRow(data, i) == [line |-> i, nan |-> i \in data.gaps]

\* `[row[col] for col in emb_cols if col in df.columns]`: one entry for each
\* emb_<i> column the header has, NaN entries included.
EmbVec(data, row) == [line |-> row.line, len |-> data.emb_cols, nan |-> row.nan]

\* `if len(emb_vec) == 128`, for data row i.
RowKept(data, i) == EmbVec(data, DataFrameRow(data, i)).len = EmbDim

\* The two lists the loop over the rows builds, in the order of the rows: the
\* emb_vec of every row kept, and its last_price (known by the row's line).
Embeddings(data) ==
    SelectSeq([i \in 1..data.rows |-> EmbVec(data, DataFrameRow(data, i))],
              LAMBDA emb_vec : emb_vec.len = EmbDim)
Prices(data) ==
    SelectSeq([i \in 1..data.rows |-> i], LAMBDA i : RowKept(data, i))

\* Mutant of ParseCsvData: a text pandas cannot parse counts as no rows.
ParseCsvDataLenient(data) ==
    [exc |-> None,
     rows |-> IF data.parses THEN Len(Embeddings(data)) ELSE 0,
     embeddings |-> Embeddings(data), prices |-> Prices(data)]

\* _parse_csv_data(csv_data): what it raises, the number of rows it keeps,
\* and the two sequences it returns.  row["last_price"] raises KeyError at
\* the first row kept when there is no such column; np.array(.., float32)
\* raises ValueError on a cell that is no number.
ParseCsvData(data) ==
    IF ~data.parses
    THEN [exc |-> Some("Error tokenizing data"), rows |-> 0,
          embeddings |-> << >>, prices |-> << >>]
    ELSE IF ~data.has_price /\ \E i \in 1..data.rows : RowKept(data, i)
    THEN [exc |-> Some("'last_price'"), rows |-> 0,
          embeddings |-> << >>, prices |-> << >>]
    ELSE IF ~data.numeric /\ \E i \in 1..data.rows : RowKept(data, i)
    THEN [exc |-> Some("could not convert string to float"), rows |-> 0,
          embeddings |-> << >>, prices |-> << >>]
    ELSE [exc |-> None, rows |-> Len(Embeddings(data)),
          embeddings |-> Embeddings(data), prices |-> Prices(data)]

\* dict.get(key, default)
ConfigGet(config, key, default) ==
    IF key \in DOMAIN config THEN config[key] ELSE default

NotEnoughMsg(n) ==
    "Not enough data points. Need at least " \o ToString(SeqLength)
        \o ", got " \o ToString(n)

\* The outcomes of _run_inference(model, config, embeddings, prices), with
\* `rows` = len(embeddings): what it raises, or the PredictionResult.
RunInferenceOutcomes(config, rows) ==
    IF rows < SeqLength
    THEN { [exc |-> Some(NotEnoughMsg(rows)), result |-> None] }
    ELSE { [exc |-> None,
            result |-> Some([prediction_horizon |->
                               ConfigGet(config, "prediction_horizon", 1),
                             window |-> SeqLength])] }
         \cup { [exc |-> Some(f), result |-> None] : f \in ForwardFailures }

(***************************************************************************)
(* The writes of _process_queue to the job it dequeued.                    *)
(***************************************************************************)
\* Mutant of ProcessingRecord: the status is not touched at the dequeue.
ProcessingRecordSkipped(job) == job

\* job.status = JobStatus.PROCESSING
ProcessingRecord(job) == [job EXCEPT !.status = PROCESSING]

\* Mutant of CompletedRecord: job.result is not assigned.
CompletedRecordNoResult(job, result, now) ==
    [job EXCEPT !.status = COMPLETED, !.completed_at = Some(now)]

\* job.result = result; job.status = COMPLETED; job.completed_at = utcnow()
CompletedRecord(job, result, now) ==
    [job EXCEPT !.result = Some(result), !.status = COMPLETED,
                !.completed_at = Some(now)]

\* Mutant of FailedRecord: job.completed_at is not assigned.
FailedRecordNoTimestamp(job, msg, now) ==
    [job EXCEPT !.error = Some(msg), !.status = FAILED]

\* Mutant of FailedRecord: job.status is not assigned.
FailedRecordKeepsStatus(job, msg, now) ==
    [job EXCEPT !.error = Some(msg), !.completed_at = Some(now)]

\* job.error = str(e); job.status = FAILED; job.completed_at = utcnow()
FailedRecord(job, msg, now) ==
    [job EXCEPT !.error = Some(msg), !.status = FAILED,
                !.completed_at = Some(now)]

(***************************************************************************)
(* InferenceService._process_queue, as task t.                             *)
(***************************************************************************)
\* The first run of a task: a task cancelled before it ever ran ends there.
Begin(t) ==
    /\ tasks[t].pc = "start"
    /\ MayRun(t)
    /\ tasks' = [tasks EXCEPT ![t].pc = IF tasks[t].must_cancel THEN "done" ELSE "loop",
                              ![t].must_cancel = FALSE]
    /\ UNCHANGED <<jobs, job_queue, getters, unfinished, loaded_models,
                   worker_task, stop_await, clock, resp, submit_order, load_count>>

\* `job = await self.job_queue.get()` with the queue empty: a getter future is
\* appended to the queue's waiters and the task suspends.
Suspend(t) ==
    /\ tasks[t].pc = "loop"
    /\ MayRun(t)
    /\ job_queue = << >>
    /\ getters' = Append(getters, t)
    /\ tasks' = [tasks EXCEPT ![t].pc = "get"]
    /\ UNCHANGED <<jobs, job_queue, unfinished, loaded_models, worker_task,
                   stop_await, clock, resp, submit_order, load_count>>

\* get() with an item in the queue returns it at once; the job is marked
\* Processing.
Dequeue(t) ==
    /\ tasks[t].pc = "loop"
    /\ MayRun(t)
    /\ job_queue # << >>
    /\ LET job_id == QueueHead(job_queue) IN
         /\ job_queue' = QueueRest(job_queue)
         /\ jobs' = [jobs EXCEPT ![job_id] = ProcessingRecord(jobs[job_id])]
         /\ tasks' = [tasks EXCEPT ![t].pc = "load", ![t].job = job_id]
    /\ UNCHANGED <<getters, unfinished, loaded_models, worker_task,
                   stop_await, clock, resp, submit_order, load_count>>

\* Mutant of Wakeup: a getter that was handed an item and is then cancelled
\* takes the item with it.
WakeupTakesItem(t) ==
    /\ MayRun(t)
    /\ \/ tasks[t].pc \in {"ready", "sleep"}
       \/ tasks[t].pc = "get" /\ tasks[t].must_cancel
    /\ IF tasks[t].must_cancel
       THEN /\ getters' = Remove(getters, t)
            /\ tasks' = [tasks EXCEPT ![t].pc = "done", ![t].must_cancel = FALSE]
            /\ job_queue' = IF tasks[t].pc = "ready" /\ job_queue # << >>
                            THEN QueueRest(job_queue) ELSE job_queue
       ELSE /\ tasks' = [tasks EXCEPT ![t].pc = "loop"]
            /\ UNCHANGED <<getters, job_queue>>
    /\ UNCHANGED <<jobs, unfinished, loaded_models, worker_task,
                   stop_await, clock, resp, submit_order, load_count>>

\* A suspended task runs again: its getter future was resolved ("ready") or
\* cancelled, or its sleep is over.  With a cancellation pending it is thrown
\* CancelledError: get() withdraws its getter (and passes a wakeup it cannot
\* use on to the next waiter), the loop breaks and the task is done.
Wakeup(t) ==
    /\ MayRun(t)
    /\ \/ tasks[t].pc \in {"ready", "sleep"}
       \/ tasks[t].pc = "get" /\ tasks[t].must_cancel
    /\ IF tasks[t].must_cancel
       THEN LET gs == Remove(getters, t)
                ts == [tasks EXCEPT ![t].pc = "done", ![t].must_cancel = FALSE]
                w  == IF tasks[t].pc = "ready" /\ job_queue # << >>
                      THEN WakeupNext(gs, ts)
                      ELSE [getters |-> gs, tasks |-> ts]
            IN /\ getters' = w.getters
               /\ tasks' = w.tasks
       ELSE /\ tasks' = [tasks EXCEPT ![t].pc = "loop"]
            /\ UNCHANGED getters
    /\ UNCHANGED <<jobs, job_queue, unfinished, loaded_models, worker_task,
                   stop_await, clock, resp, submit_order, load_count>>

\* model, config = self._load_model(job.model)
LoadModel(t) ==
    /\ tasks[t].pc = "load"
    /\ MayRun(t)
    /\ \E o \in LoadModelOutcomes(jobs[tasks[t].job].model) :
         /\ loaded_models' = o.cache
         /\ load_count' = IF o.loaded
                          THEN [load_count EXCEPT ![jobs[tasks[t].job].model] = @ + 1]
                          ELSE load_count
         /\ tasks' = [tasks EXCEPT ![t].pc = IF o.exc = None THEN "parse" ELSE "except",
                                   ![t].exc = o.exc]
    /\ UNCHANGED <<jobs, job_queue, getters, unfinished, worker_task,
                   stop_await, clock, resp, submit_order>>

\* embeddings, prices = self._parse_csv_data(job.data)
Parse(t) ==
    /\ tasks[t].pc = "parse"
    /\ MayRun(t)
    /\ LET o == ParseCsvData(jobs[tasks[t].job].data) IN
         tasks' = [tasks EXCEPT ![t].pc = IF o.exc = None THEN "infer" ELSE "except",
                                ![t].exc = o.exc,
                                ![t].rows = o.rows]
    /\ UNCHANGED <<jobs, job_queue, getters, unfinished, loaded_models,
                   worker_task, stop_await, clock, resp, submit_order, load_count>>

\* result = self._run_inference(model, config, embeddings, prices)
RunInference(t) ==
    /\ tasks[t].pc = "infer"
    /\ MayRun(t)
    /\ \E o \in RunInferenceOutcomes(loaded_models[jobs[tasks[t].job].model].config,
                                     tasks[t].rows) :
         tasks' = [tasks EXCEPT ![t].pc = IF o.exc = None THEN "completed" ELSE "except",
                                ![t].exc = o.exc,
                                ![t].result = o.result]
    /\ UNCHANGED <<jobs, job_queue, getters, unfinished, loaded_models,
                   worker_task, stop_await, clock, resp, submit_order, load_count>>

\* The three assignments after a successful _run_inference.
WriteCompleted(t) ==
    /\ tasks[t].pc = "completed"
    /\ MayRun(t)
    /\ jobs' = [jobs EXCEPT ![tasks[t].job] =
                  CompletedRecord(jobs[tasks[t].job], tasks[t].result[1], clock)]
    /\ clock' = clock + 1
    /\ tasks' = [tasks EXCEPT ![t].pc = "finally"]
    /\ UNCHANGED <<job_queue, getters, unfinished, loaded_models, worker_task,
                   stop_await, resp, submit_order, load_count>>

\* Mutant of WriteFailed: the failure leaves the loop and ends the task.
WriteFailedPropagates(t) ==
    /\ tasks[t].pc = "except"
    /\ MayRun(t)
    /\ tasks' = [tasks EXCEPT ![t] = [NewTask EXCEPT !.pc = "done"]]
    /\ UNCHANGED <<jobs, job_queue, getters, unfinished, loaded_models, worker_task,
                   stop_await, clock, resp, submit_order, load_count>>

\* `except Exception as e`: the three assignments and the print.
WriteFailed(t) ==
    /\ tasks[t].pc = "except"
    /\ MayRun(t)
    /\ jobs' = [jobs EXCEPT ![tasks[t].job] =
                  FailedRecord(jobs[tasks[t].job], tasks[t].exc[1], clock)]
    /\ clock' = clock + 1
    /\ tasks' = [tasks EXCEPT ![t].pc = "finally"]
    /\ UNCHANGED <<job_queue, getters, unfinished, loaded_models, worker_task,
                   stop_await, resp, submit_order, load_count>>

\* `finally: self.job_queue.task_done()`, then the next turn of the loop.
\* task_done() raises ValueError when called more often than put(): the outer
\* `except Exception` prints and sleeps.  The task's locals are not read again
\* before they are reassigned; the model resets them.
Finally(t) ==
    /\ tasks[t].pc = "finally"
    /\ MayRun(t)
    /\ IF unfinished <= 0
       THEN /\ tasks' = [tasks EXCEPT ![t] = [NewTask EXCEPT !.pc = "sleep"]]
            /\ UNCHANGED unfinished
       ELSE /\ tasks' = [tasks EXCEPT ![t] = [NewTask EXCEPT !.pc = "loop"]]
            /\ unfinished' = unfinished - 1
    /\ UNCHANGED <<jobs, job_queue, getters, loaded_models, worker_task,
                   stop_await, clock, resp, submit_order, load_count>>

\* One step of the worker coroutine.
WorkerStep(t) ==
    \/ Begin(t)
    \/ Suspend(t)
    \/ Dequeue(t)
    \/ Wakeup(t)
    \/ LoadModel(t)
    \/ Parse(t)
    \/ RunInference(t)
    \/ WriteCompleted(t)
    \/ WriteFailed(t)
    \/ Finally(t)

Next ==
    \/ \E s \in Submissions : SubmitJob(s.model, s.data)
    \/ \E s \in Submissions, file \in FileKinds :
          SubmitInference(s.model, file, s.data)
    \/ \E job_id \in LookupIds : GetInferenceResult(job_id)
    \/ StartWorker
    \/ StopWorker
    \/ StopWorkerReturn
    \/ \E t \in TaskIds : WorkerStep(t)

Spec == Init /\ [][Next]_vars

\* The event loop runs every callback it has scheduled: a worker step that
\* stays possible is eventually taken.
LiveSpec == Spec /\ \A t \in TaskIds : WF_vars(WorkerStep(t))

(***************************************************************************)
(* The Executor on one job.  The state after submit_job(model, data) and   *)
(* start_worker(), for every model name and every kind of payload; the     *)
(* worker then takes the job through _load_model, _parse_csv_data and      *)
(* _run_inference, and clients look the result up.                         *)
(***************************************************************************)
ExecutorPayloads ==
    { FullWindowCsv, ShortCsv, MalformedCsv, HeaderOnlyCsv, MissingColumnCsv,
      NoPriceCsv, TextCellsCsv, GappyWindowCsv, GappyShortCsv }
ExecutorInputs == { Submission(m, d) : m \in ModelNames, d \in ExecutorPayloads }

ExecutorInit ==
    \E s \in ExecutorInputs :
        /\ jobs = (1 :> InferenceJob(s.model, s.data, 1))
        /\ job_queue = <<1>>
        /\ getters = << >>
        /\ unfinished = 1
        /\ loaded_models = << >>
        /\ worker_task = 1
        /\ tasks = [t \in TaskIds |-> IF t = 1 THEN NewTask ELSE NoTask]
        /\ stop_await = 0
        /\ clock = 2
        /\ resp = [op |-> "start_worker", created |-> TRUE]
        /\ submit_order = <<1>>
        /\ load_count = [n \in StoreNames |-> 0]

ExecutorNext ==
    \/ \E t \in TaskIds : Begin(t)
    \/ \E t \in TaskIds : Dequeue(t)
    \/ \E t \in TaskIds : LoadModel(t)
    \/ \E t \in TaskIds : Parse(t)
    \/ \E t \in TaskIds : RunInference(t)
    \/ \E t \in TaskIds : WriteCompleted(t)
    \/ \E t \in TaskIds : WriteFailed(t)
    \/ \E t \in TaskIds : Finally(t)
    \/ \E t \in TaskIds : Suspend(t)
    \/ \E job_id \in LookupIds : GetInferenceResult(job_id)

ExecutorSpec == ExecutorInit /\ [][ExecutorNext]_vars

(***************************************************************************)
(* Vocabulary of the properties.                                           *)
(***************************************************************************)
Terminal == {COMPLETED, FAILED}
IsTerminal(job_id) == job_id \in DOMAIN jobs /\ jobs[job_id].status \in Terminal

\* A worker task exists, has not ended, and no cancellation of it is pending.
WorkerRunning ==
    /\ worker_task # 0
    /\ ~TaskDone(worker_task)
    /\ ~tasks[worker_task].must_cancel

\* The positions between the dequeue of a job and the write of its outcome.
ExecutorPcs == {"load", "parse", "infer", "completed", "except"}
\* The jobs some task is executing.
InExecutor == { tasks[t].job : t \in { u \in TaskIds : tasks[u].pc \in ExecutorPcs } }
ProcessingJobs == { j \in DOMAIN jobs : jobs[j].status = PROCESSING }

\* Position of job_id in submit_order (0: not there).
SubmitIndex(job_id) ==
    IF \E i \in 1..Len(submit_order) : submit_order[i] = job_id
    THEN CHOOSE i \in 1..Len(submit_order) : submit_order[i] = job_id
    ELSE 0

(***************************************************************************)
(* C1.  Every submitted job ends: whenever a job is in the store and the   *)
(* worker is running (started, not ended, no stop requested), then later   *)
(* the job is Completed or Failed, or a stop of the worker has been        *)
(* requested.  Checked under LiveSpec (the loop runs the worker's steps).  *)
(***************************************************************************)
C1_EveryJobEnds ==
    \A j \in JobIds :
        (j \in DOMAIN jobs /\ WorkerRunning) ~> (IsTerminal(j) \/ ~WorkerRunning)

\* Both jobs were submitted, the worker is still running and idle, and every
\* job has ended, one of them Completed.
C1_Witness ==
    /\ Len(submit_order) = MaxJobs
    /\ WorkerRunning
    /\ tasks[worker_task].pc = "get"
    /\ \A j \in DOMAIN jobs : IsTerminal(j)
    /\ \E j \in DOMAIN jobs : jobs[j].status = COMPLETED

(***************************************************************************)
(* C2.  In every state, for every job: Completed iff result is populated   *)
(* and error is absent; Failed iff error is populated and result is        *)
(* absent; Pending or Processing implies neither is populated.             *)
(* (Populated: not None.)                                                  *)
(***************************************************************************)
C2_ResultErrorMatchStatus ==
    \A j \in DOMAIN jobs :
        /\ jobs[j].status = COMPLETED <=> (jobs[j].result # None /\ jobs[j].error = None)
        /\ jobs[j].status = FAILED <=> (jobs[j].error # None /\ jobs[j].result = None)
        /\ jobs[j].status \in {PENDING, PROCESSING}
             => (jobs[j].result = None /\ jobs[j].error = None)

\* One job is Completed and another is Failed.
C2_Witness ==
    /\ \E j \in DOMAIN jobs : jobs[j].status = COMPLETED /\ jobs[j].result # None
    /\ \E j \in DOMAIN jobs : jobs[j].status = FAILED /\ jobs[j].error # None

(***************************************************************************)
(* C3.  Every step leaves a job's status alone, or moves it from Pending   *)
(* to Processing, or from Processing to Completed or Failed; a new job     *)
(* starts Pending and no job disappears.                                   *)
(***************************************************************************)
StatusStep(a, b) ==
    \/ a = b
    \/ a = PENDING /\ b = PROCESSING
    \/ a = PROCESSING /\ b \in Terminal

C3_MonotonicStatus ==
    [][ /\ \A j \in DOMAIN jobs :
             j \in DOMAIN jobs' /\ StatusStep(jobs[j].status, jobs'[j].status)
        /\ \A j \in DOMAIN jobs' \ DOMAIN jobs : jobs'[j].status = PENDING ]_vars

\* A job that went all the way to Failed, while a later one is Processing.
C3_Witness ==
    \E i, j \in DOMAIN jobs :
        /\ jobs[i].status = FAILED
        /\ jobs[j].status = PROCESSING
        /\ tasks[worker_task].pc = "infer"

(***************************************************************************)
(* C4.  Jobs are processed in submission order: in the step in which a job *)
(* becomes Processing, every job submitted before it is already Completed  *)
(* or Failed (whatever starts and stops of the worker came in between).    *)
(***************************************************************************)
C4_SubmissionOrder ==
    [][ \A j \in DOMAIN jobs :
          (jobs[j].status = PENDING /\ jobs'[j].status = PROCESSING)
            => \A i \in DOMAIN jobs :
                 (SubmitIndex(i) < SubmitIndex(j)) => jobs[i].status \in Terminal ]_vars

\* The second job submitted is being processed, after the first one ended, by
\* a worker that was started after an earlier worker had been stopped.
C4_Witness ==
    /\ Len(submit_order) >= 2
    /\ jobs[submit_order[2]].status = PROCESSING
    /\ IsTerminal(submit_order[1])
    /\ \E t \in TaskIds : t # worker_task /\ tasks[t].pc = "done"

(***************************************************************************)
(* C5.  In every state at most one job is Processing and at most one task  *)
(* is inside the Executor; the Processing job is the one that task holds.  *)
(***************************************************************************)
C5_OneJobAtATime ==
    /\ Cardinality(ProcessingJobs) <= 1
    /\ Cardinality({ t \in TaskIds : tasks[t].pc \in RunningPcs }) <= 1
    /\ ProcessingJobs = InExecutor

\* A job is in the Executor while another waits in the queue and a stop and a
\* restart of the worker lie behind.
C5_Witness ==
    /\ Cardinality(ProcessingJobs) = 1
    /\ job_queue # << >>
    /\ \E t \in TaskIds : tasks[t].pc = "parse"
    /\ \E t \in TaskIds : tasks[t].pc = "done"

(***************************************************************************)
(* C6.  A failure of the Executor stays with its job: the step after the   *)
(* Executor raised writes the job as Failed, with completed_at set and the *)
(* failure's text as error, and leaves the task in the loop; the task then *)
(* takes the next turn of the loop; a task ends only when a cancellation   *)
(* of it is pending; and a job that is at the head of the queue when the   *)
(* Executor raises for another job is later Completed or Failed.           *)
(* Checked under LiveSpec.                                                 *)
(***************************************************************************)
C6_FailureIsolated ==
    /\ [][ \A t \in TaskIds :
             /\ tasks[t].pc = "except"
                  => /\ jobs'[tasks[t].job].status = FAILED
                     /\ jobs'[tasks[t].job].completed_at # None
                     /\ jobs'[tasks[t].job].error = tasks[t].exc
                     /\ tasks'[t].pc = "finally"
             /\ tasks[t].pc = "finally" => tasks'[t].pc = "loop"
             /\ (tasks[t].pc # "done" /\ tasks'[t].pc = "done")
                  => tasks[t].must_cancel ]_vars
    /\ \A j \in JobIds :
         ( /\ \E t \in TaskIds : tasks[t].pc = "except"
           /\ job_queue # << >>
           /\ Head(job_queue) = j ) ~> IsTerminal(j)

\* A job Failed on an unanticipated failure, a job submitted after it is
\* Completed, and the worker is running, waiting for more.
C6_Witness ==
    /\ WorkerRunning
    /\ tasks[worker_task].pc = "get"
    /\ \E i, j \in DOMAIN jobs :
         /\ SubmitIndex(i) < SubmitIndex(j)
         /\ jobs[i].status = FAILED
         /\ jobs[i].error \in { Some(f) : f \in LoadFailures \cup ForwardFailures }
         /\ jobs[j].status = COMPLETED

(***************************************************************************)
(* C7.  In every state a Failed job carries a non-empty error description  *)
(* and a Completed job carries none.                                       *)
(***************************************************************************)
C7_FailedHasNonEmptyError ==
    \A j \in DOMAIN jobs :
        /\ jobs[j].status = FAILED
             => (jobs[j].error # None /\ jobs[j].error # Some(""))
        /\ jobs[j].status = COMPLETED => jobs[j].error = None

(***************************************************************************)
(* C8.  A submission is one step: the step that returns the identifier     *)
(* adds, under an identifier no job had, a Pending job to the store and    *)
(* puts it at the tail of the queue, touching no other job, whatever the   *)
(* worker is doing; no job ever leaves the store, and get_job_result of    *)
(* an identifier a submission returned never raises.                       *)
(***************************************************************************)
C8_SubmitIsImmediate ==
    /\ [](\A i \in 1..Len(submit_order) : GetJobResult(submit_order[i]).raised = None)
    /\ [][ submit_order' # submit_order
             => LET id == submit_order'[Len(submit_order')] IN
                  /\ submit_order' = Append(submit_order, id)
                  /\ resp'.op \in {"submit_job", "submit_inference"}
                  /\ resp'.job_id = id
                  /\ id \notin DOMAIN jobs
                  /\ DOMAIN jobs' = DOMAIN jobs \cup {id}
                  /\ jobs'[id].status = PENDING
                  /\ job_queue' = Append(job_queue, id)
                  /\ \A j \in DOMAIN jobs : jobs'[j] = jobs[j] ]_vars
    /\ [][ DOMAIN jobs \subseteq DOMAIN jobs' ]_vars

\* submit_job has just returned while a stop of the worker is in progress:
\* the new job is behind an older one in the queue.
C8_Witness ==
    /\ resp.op = "submit_job"
    /\ stop_await # 0
    /\ Len(job_queue) = 2
    /\ job_queue[2] = resp.job_id
    /\ jobs[resp.job_id].status = PENDING

(***************************************************************************)
(* C9.  A lookup changes nothing but its response.  For an identifier no   *)
(* submission returned the response is the 404 made from the ValueError    *)
(* "Job not found: <id>"; for a known one it is the 200 with the job's     *)
(* current status, timestamps, model, result and error.                    *)
(***************************************************************************)
Returned(job_id) == \E i \in 1..Len(submit_order) : submit_order[i] = job_id

C9_LookupNotFound ==
    [][ (resp' # resp /\ resp'.op = "get_inference_result")
          => /\ UNCHANGED <<jobs, job_queue, getters, unfinished, loaded_models,
                            worker_task, tasks, stop_await, clock>>
             /\ IF Returned(resp'.request)
                THEN /\ resp'.status_code = 200
                     /\ resp'.body.job_id = resp'.request
                     /\ resp'.body.status = jobs[resp'.request].status
                     /\ resp'.body.submitted_at = jobs[resp'.request].submitted_at
                     /\ resp'.body.completed_at = jobs[resp'.request].completed_at
                     /\ resp'.body.model = jobs[resp'.request].model
                     /\ resp'.body.result = jobs[resp'.request].result
                     /\ resp'.body.error = jobs[resp'.request].error
                ELSE /\ resp'.status_code = 404
                     /\ resp'.detail = JobNotFoundMsg(resp'.request) ]_vars

\* An unknown identifier was just looked up, with a finished job in the store
\* and another one in the queue.
C9_Witness ==
    /\ resp.op = "get_inference_result"
    /\ resp.status_code = 404
    /\ ~Returned(resp.request)
    /\ \E j \in DOMAIN jobs : IsTerminal(j)
    /\ job_queue # << >>

(***************************************************************************)
(* C10.  A name is read from the model store successfully at most once:    *)
(* its number of successful loads is 1 when it is in the cache and 0 when  *)
(* it is not; a load for a cached name goes on to parsing without touching *)
(* the cache; and an entry of the cache is never removed or replaced.      *)
(***************************************************************************)
C10_LoadedAtMostOnce ==
    /\ [](\A n \in StoreNames : load_count[n] = IF Cached(n) THEN 1 ELSE 0)
    /\ [](DOMAIN loaded_models \subseteq StoreNames)
    /\ [][ \A n \in DOMAIN loaded_models :
             n \in DOMAIN loaded_models' /\ loaded_models'[n] = loaded_models[n] ]_vars
    /\ [][ \A t \in TaskIds :
             (tasks[t].pc = "load" /\ Cached(jobs[tasks[t].job].model))
               => (tasks'[t].pc = "parse" /\ UNCHANGED <<loaded_models, load_count>>) ]_vars

\* The first job Completed with its model; the second job, for the same
\* model, is past the model load.
C10_Witness ==
    /\ Len(submit_order) = 2
    /\ jobs[submit_order[1]].status = COMPLETED
    /\ jobs[submit_order[2]].model = jobs[submit_order[1]].model
    /\ \E t \in TaskIds : tasks[t].pc = "parse" /\ tasks[t].job = submit_order[2]
    /\ load_count[jobs[submit_order[1]].model] = 1

\* The tasks that exist and have not ended.
AliveTasks == { t \in TaskIds : tasks[t].pc \notin {"none", "done"} }

(***************************************************************************)
(* Vocabulary of the parser claims: the rows of a payload that supply all  *)
(* EmbDim feature fields (the header has every emb_<i> column and the row  *)
(* leaves none of their cells empty), by line and in input order.          *)
(***************************************************************************)
SuppliesAll(data, i) == data.parses /\ data.emb_cols = EmbDim /\ i \notin data.gaps
ValidLines(data) ==
    SelectSeq([i \in 1..data.rows |-> i], LAMBDA i : SuppliesAll(data, i))

(***************************************************************************)
(* C11.  A payload yielding fewer than SeqLength (20) valid rows yields a  *)
(* Failed job whose error is the insufficient-data message naming 20 and   *)
(* the number of valid rows.  Stated for the jobs that reach the length    *)
(* validation (the model resolved and the payload parsed): every such job  *)
(* that has ended and whose payload has fewer than 20 rows supplying all   *)
(* 128 feature fields is Failed with "Not enough data points. Need at      *)
(* least 20, got <number of valid rows>".                                  *)
(***************************************************************************)
C11_InsufficientData ==
    \A j \in DOMAIN jobs :
        LET n == Len(ValidLines(jobs[j].data)) IN
        ( /\ IsTerminal(j)
          /\ jobs[j].model \in DOMAIN loaded_models
          /\ ParseCsvData(jobs[j].data).exc = None
          /\ n < SeqLength )
        => /\ jobs[j].status = FAILED
           /\ jobs[j].error =
                Some("Not enough data points. Need at least 20, got " \o ToString(n))

(***************************************************************************)
(* C12.  A job whose model name is not in the model store is never         *)
(* Completed; once Failed its error is "Model not found: <name>"; the      *)
(* cache never holds that name.  The two entry points each keep to one     *)
(* contract: the boundary handler answers such a name with 404 and creates *)
(* no job (a job with an unknown name enters only through submit_job),     *)
(* and submit_job defers the failure to processing.                        *)
(***************************************************************************)
C12_UnknownModel ==
    /\ [](\A j \in DOMAIN jobs :
            jobs[j].model \notin StoreNames
              => /\ jobs[j].status # COMPLETED
                 /\ jobs[j].status = FAILED
                      => jobs[j].error = Some("Model not found: " \o jobs[j].model)
                 /\ jobs[j].model \notin DOMAIN loaded_models)
    /\ [][ \A j \in DOMAIN jobs' \ DOMAIN jobs :
             jobs'[j].model \notin StoreNames => resp'.op = "submit_job" ]_vars
    /\ [][ (resp' # resp /\ resp'.op = "submit_inference" /\ resp'.status_code = 404)
             => UNCHANGED <<jobs, job_queue, loaded_models>> ]_vars

\* A job for an unknown name has Failed with the message naming it, and the
\* boundary has just answered 404.
C12_Witness ==
    /\ \E j \in DOMAIN jobs :
         /\ jobs[j].model \notin StoreNames
         /\ jobs[j].status = FAILED
         /\ jobs[j].error = Some("Model not found: " \o jobs[j].model)
    /\ resp.op = "submit_inference"
    /\ resp.status_code = 404

(***************************************************************************)
(* C13.  In every state a job's completed_at is set if and only if its     *)
(* status is Completed or Failed; the step that makes the status terminal  *)
(* sets completed_at; and once set it never changes.                       *)
(***************************************************************************)
C13_CompletedAt ==
    /\ [](\A j \in DOMAIN jobs :
            jobs[j].completed_at # None <=> jobs[j].status \in Terminal)
    /\ [][ \A j \in DOMAIN jobs :
             /\ (jobs[j].status \notin Terminal /\ jobs'[j].status \in Terminal)
                  => /\ jobs[j].completed_at = None
                     /\ jobs'[j].completed_at # None
             /\ jobs[j].completed_at # None
                  => jobs'[j].completed_at = jobs[j].completed_at ]_vars

\* A Failed job with its completion time, while the next job, Processing,
\* has none.
C13_Witness ==
    \E i, j \in DOMAIN jobs :
        /\ jobs[i].status = FAILED
        /\ jobs[i].completed_at # None
        /\ jobs[j].status = PROCESSING
        /\ jobs[j].completed_at = None
        /\ \E t \in TaskIds : tasks[t].pc = "except" /\ tasks[t].job = j

(***************************************************************************)
(* C14.  A start_worker call made while the worker task is alive, and a    *)
(* stop_worker call made while there is no worker task or it has ended,    *)
(* change neither the worker task, nor the tasks, nor the queue and its    *)
(* waiters, nor any job, nor the cache; and in every state at most one     *)
(* task is alive, and it is the one worker_task names.                     *)
(***************************************************************************)
C14_StartStopIdempotent ==
    /\ [](Cardinality(AliveTasks) <= 1 /\ AliveTasks \subseteq {worker_task})
    /\ [][ (resp' # resp /\ resp'.op = "start_worker" /\ ~NoLiveWorker)
             => UNCHANGED <<worker_task, tasks, stop_await, job_queue, getters,
                            unfinished, jobs, loaded_models>> ]_vars
    /\ [][ (resp' # resp /\ resp'.op = "stop_worker" /\ NoLiveWorker)
             => UNCHANGED <<worker_task, tasks, stop_await, job_queue, getters,
                            unfinished, jobs, loaded_models>> ]_vars

\* start_worker has just returned without creating a task: the worker, the
\* second one made, is alive and waiting in get() with a job behind it.
C14_Witness ==
    /\ resp = [op |-> "start_worker", created |-> FALSE]
    /\ worker_task = 2
    /\ AliveTasks = {worker_task}
    /\ tasks[worker_task].pc = "get"
    /\ \E j \in DOMAIN jobs : IsTerminal(j)

(***************************************************************************)
(* C15.  The step in which a stop_worker call that cancelled the worker    *)
(* returns is taken only when the task it awaits has ended, and in the     *)
(* state it returns in no job is Processing: every job that has left the   *)
(* queue is Completed or Failed.                                           *)
(***************************************************************************)
C15_StopAwaitsWorker ==
    [][ (stop_await # 0 /\ stop_await' = 0)
          => /\ TaskDone(stop_await)
             /\ resp'.op = "stop_worker_return"
             /\ \A j \in DOMAIN jobs' :
                  /\ jobs'[j].status # PROCESSING
                  /\ (\A i \in 1..Len(job_queue') : job_queue'[i] # j)
                       => jobs'[j].status \in Terminal ]_vars

\* stop_worker has returned: the worker it stopped had taken one job to its
\* end, and the other job is still in the queue, Pending.
C15_Witness ==
    /\ resp.op = "stop_worker_return"
    /\ stop_await = 0
    /\ worker_task # 0
    /\ TaskDone(worker_task)
    /\ \E j \in DOMAIN jobs : IsTerminal(j)
    /\ \E j \in DOMAIN jobs : jobs[j].status = PENDING /\ job_queue = <<j>>

(***************************************************************************)
(* C16.  No step removes a job or changes a job's model name, payload or   *)
(* submitted_at.  A step that changes a job's record at all is a step of   *)
(* a worker task on the job it holds (the job at the head of the queue     *)
(* when it dequeues, the job it dequeued when it writes the outcome); it   *)
(* is no call of submit_job, get_job_result, list_available_models,        *)
(* start_worker or stop_worker (no call returns in it), and it leaves      *)
(* every other job's record as it was.                                     *)
(***************************************************************************)
C16_SingleWriter ==
    [][ \A j \in DOMAIN jobs :
          /\ j \in DOMAIN jobs'
          /\ jobs'[j].model = jobs[j].model
          /\ jobs'[j].data = jobs[j].data
          /\ jobs'[j].submitted_at = jobs[j].submitted_at
          /\ jobs'[j] # jobs[j]
               => /\ resp' = resp
                  /\ \E t \in TaskIds :
                       \/ /\ tasks[t].pc = "loop"
                          /\ job_queue # << >>
                          /\ Head(job_queue) = j
                          /\ tasks'[t].job = j
                       \/ /\ tasks[t].pc \in {"completed", "except"}
                          /\ tasks[t].job = j
                  /\ \A i \in DOMAIN jobs \ {j} : jobs'[i] = jobs[i] ]_vars

\* The worker has just written the outcome of one job while another job,
\* submitted during the processing of the first, waits untouched in the queue
\* and a lookup has been answered.
C16_Witness ==
    /\ \E t \in TaskIds :
         /\ tasks[t].pc = "finally"
         /\ jobs[tasks[t].job].status = COMPLETED
         /\ \E i \in DOMAIN jobs \ {tasks[t].job} :
              /\ job_queue = <<i>>
              /\ jobs[i] = InferenceJob(jobs[i].model, jobs[i].data, jobs[i].submitted_at)
    /\ resp.op = "get_inference_result"

(***************************************************************************)
(* C17.  The parser keeps a row if and only if the row supplies all 128    *)
(* feature fields, in input order, with one reference value per vector     *)
(* kept: whenever _parse_csv_data has returned for a job, the lines of the *)
(* vectors it returned, and of the reference values, are exactly the lines *)
(* of the payload that supply every feature field, in the order of the     *)
(* payload, and the length the Executor goes on with is their number.      *)
(***************************************************************************)
C17_ParserKeepsCompleteRows ==
    \A t \in TaskIds :
        tasks[t].pc = "infer"
          => LET data == jobs[tasks[t].job].data
                 p == ParseCsvData(data)
             IN /\ [k \in 1..Len(p.embeddings) |-> p.embeddings[k].line]
                      = ValidLines(data)
                /\ p.prices = ValidLines(data)
                /\ tasks[t].rows = Len(ValidLines(data))

(***************************************************************************)
(* C18.  The Executor's steps run in the order model resolution, parsing,  *)
(* length validation and forward pass, and the first failure decides the   *)
(* error: from the model load the task goes on to parsing or to the        *)
(* failure write, from parsing to the inference call or to the failure     *)
(* write, from the inference call to one of the two writes; the failure    *)
(* write records the exception of the step that raised and no Executor     *)
(* step follows it.  A job with an unknown model name ends Failed with     *)
(* "Model not found: <name>" whatever its payload, and a job whose model   *)
(* resolved and whose payload pandas cannot parse ends Failed with the     *)
(* parse failure, never with the insufficient-data message.                *)
(***************************************************************************)
C18_FirstFailureDecides ==
    /\ [][ \A t \in TaskIds :
             LET j == tasks[t].job IN
             /\ tasks[t].pc = "load"
                  => /\ tasks'[t].pc \in {"parse", "except"}
                     /\ jobs[j].model \notin StoreNames
                          => /\ tasks'[t].pc = "except"
                             /\ tasks'[t].exc = Some("Model not found: " \o jobs[j].model)
             /\ tasks[t].pc = "parse"
                  => /\ tasks'[t].pc \in {"infer", "except"}
                     /\ ~jobs[j].data.parses
                          => /\ tasks'[t].pc = "except"
                             /\ tasks'[t].exc = Some("Error tokenizing data")
             /\ tasks[t].pc = "infer" => tasks'[t].pc \in {"completed", "except"}
             /\ tasks[t].pc = "except"
                  => /\ tasks'[t].pc = "finally"
                     /\ jobs'[j].status = FAILED
                     /\ jobs'[j].error = tasks[t].exc ]_vars
    /\ [](\A j \in DOMAIN jobs :
            (IsTerminal(j) /\ jobs[j].model \notin StoreNames)
              => /\ jobs[j].status = FAILED
                 /\ jobs[j].error = Some("Model not found: " \o jobs[j].model))
    /\ [](\A j \in DOMAIN jobs :
            (IsTerminal(j) /\ jobs[j].model \in DOMAIN loaded_models
                           /\ ~jobs[j].data.parses)
              => /\ jobs[j].status = FAILED
                 /\ jobs[j].error = Some("Error tokenizing data"))

\* A job with an unknown model name and a payload that cannot be parsed has
\* ended: Failed, with the message of the first step.
C18_Witness ==
    \E j \in DOMAIN jobs :
        /\ jobs[j].model \notin StoreNames
        /\ ~jobs[j].data.parses
        /\ jobs[j].status = FAILED
        /\ jobs[j].error = Some("Model not found: " \o jobs[j].model)
        /\ \E t \in TaskIds : tasks[t].pc = "get"

(***************************************************************************)
(* C19.  No job is lost by a cancellation.  In every state each job is in  *)
(* the queue once when its status is Pending and not at all otherwise, and *)
(* the queue holds the Pending jobs in the order of their submission; a    *)
(* job becomes Processing only as the head of the queue, which it leaves   *)
(* in that step.  So the jobs a stop leaves Pending are taken, in their    *)
(* original order, by the worker a later start_worker creates.             *)
(***************************************************************************)
C19_NoJobLost ==
    /\ [](\A j \in DOMAIN jobs :
            Cardinality({ i \in 1..Len(job_queue) : job_queue[i] = j })
                = IF jobs[j].status = PENDING THEN 1 ELSE 0)
    /\ [](job_queue = SelectSeq(submit_order, LAMBDA j : jobs[j].status = PENDING))
    /\ [][ \A j \in DOMAIN jobs :
             (jobs[j].status = PENDING /\ jobs'[j].status # PENDING)
               => /\ jobs'[j].status = PROCESSING
                  /\ job_queue # << >>
                  /\ j = Head(job_queue)
                  /\ job_queue' = Tail(job_queue) ]_vars

\* A submission woke the worker suspended in get(), stop_worker then
\* cancelled it before it ran, and it has ended: the job it was woken for is
\* still in the queue, Pending, behind no other, after an earlier job ended.
C19_Witness ==
    /\ resp.op = "stop_worker"
    /\ stop_await # 0
    /\ TaskDone(stop_await)
    /\ \E i, j \in DOMAIN jobs :
         /\ IsTerminal(i)
         /\ jobs[j].status = PENDING
         /\ job_queue = <<j>>

(***************************************************************************)
(* C20.  Once start_worker has returned and no stop_worker call has begun  *)
(* after it, a live worker task exists (and so the jobs in the queue are   *)
(* eventually processed), also when the start_worker call ran while an     *)
(* earlier stop_worker call was awaiting the worker's end.  As a property  *)
(* of states: while start_worker is the last call to have returned or      *)
(* begun, worker_task names a task that has not ended.                     *)
(***************************************************************************)
C20_StartedWorkerLives ==
    resp.op = "start_worker" => (worker_task # 0 /\ ~TaskDone(worker_task))

=============================================================================
